---- MODULE Spec2Model ----
(***************************************************************************)
(* Component Migration Helper (Figma plugin): a model of src/code.js.      *)
(*                                                                         *)
(*  - the Visual Comparison Generator (generateVisualComparison), as the   *)
(*    asynchronous state machine it is: one action per run of code between *)
(*    two awaited host calls or two loop iterations;                       *)
(*  - the Name Resolver (getComponentKey, getComponentName), as operators  *)
(*    applied by the actions of a second specification.                    *)
(*                                                                         *)
(* Strings whose characters the code inspects are sequences of one-        *)
(* character strings.  null/undefined is the sequence Null.  An optional   *)
(* object is <<>> (absent) or <<r>> (present).                             *)
(***************************************************************************)
EXTENDS Integers, Sequences, FiniteSets, TLC

VARIABLES
    fileKey,      \* figma.fileKey, the ambient document namespace id (or Null)
    running,      \* the call that holds the single execution context, or NoBatch
    pc,           \* per call: where generateVisualComparison stands
    mappings,     \* per call: the argument msg.mappings
    fontsLoaded,  \* per call: number of loadFontAsync calls that have resolved
    frame,        \* per call: the root container, <<>> until created
    hasErrors,    \* per call: the local flag of that name
    idx,          \* per call: 1-based position of the for-of loop
    cur,          \* per call: the pair block under construction
    attempted,    \* per call: the positions whose loop body was entered
    importCalls,  \* per call: the keys handed to importComponentByKeyAsync
    posted,       \* per call: the messages it passed to figma.ui.postMessage
    faults,       \* per call: the host failures met, as <<kind, loop position>>
    selection,    \* figma.currentPage.selection, a sequence of nodes
    node,         \* Name Resolver: the entity handed to the resolver
    resolvedKey,  \* Name Resolver: last result of getComponentKey, or Unset
    resolvedName, \* Name Resolver: last result of getComponentName, or Unset
    rawKey,       \* Key formatting: the key handed to formatComponentKey
    formatted,    \* Key formatting: last result of formatComponentKey, or Unset
    storage,      \* figma.clientStorage: the value under 'componentMigrationMappings'
    now,          \* Date.now()
    saving,       \* the data of the saveMappings calls suspended on setAsync
    loading,      \* number of loadSavedMappings calls suspended on getAsync
    started,      \* number of load and save requests received from the UI
    saveLog,      \* the setAsync calls that have settled: data and outcome
    reads,        \* the getAsync calls that have settled: outcome, value, time
    uiOut,        \* messages posted to the UI by the handlers other than the generator
    timerPending, \* the setTimeout of the initial selection check has not fired
    copied,       \* the selections copySelectedComponentKey has been called with
    ins           \* the insertComponentsByKeys call: position, keys, locals

genVars == <<running, pc, mappings, fontsLoaded, frame, hasErrors, idx, cur,
             attempted, importCalls, posted, faults>>
nameVars == <<node, resolvedKey, resolvedName>>
keyVars == <<rawKey, formatted>>
storeVars == <<storage, now, saving, loading, started, saveLog, reads>>
cmdVars == <<copied, ins>>
otherVars == <<nameVars, keyVars, storeVars, uiOut, timerPending, cmdVars>>
vars == <<fileKey, genVars, selection, otherVars>>

----------------------------------------------------------------------------
(* Bounds *)

MaxMappings == 2
MaxKeyLen == 3
MaxOps == 2
MaxTicks == 2
MaxSelection == 2
MaxPosts == 2
MaxKeys == 2

----------------------------------------------------------------------------
(* Values *)

Null == <<"<null>">>
Unset == <<"<unset>">>

Batches == {"b1", "b2"}
NoBatch == "none"

\* JavaScript truthiness of a string-or-null value.
Truthy(s) == s # Null /\ s # <<>>

\* s.includes(c)
Includes(s, c) == \E i \in 1..Len(s) : s[i] = c

\* Position of the first c in s, 0 when there is none.
RECURSIVE IndexFrom(_, _, _)
IndexFrom(s, c, i) ==
    IF i > Len(s) THEN 0
    ELSE IF s[i] = c THEN i
    ELSE IndexFrom(s, c, i + 1)

\* s.split(c) for a one-character separator: the sequence of parts.
RECURSIVE Split(_, _)
Split(s, c) ==
    LET p == IndexFrom(s, c, 1)
    IN  IF p = 0 THEN <<s>>
        ELSE <<SubSeq(s, 1, p - 1)>> \o Split(SubSeq(s, p + 1, Len(s)), c)

----------------------------------------------------------------------------
(* Key formatting and the host's component catalogue *)

\* Variant of formatComponentKey that looks for '/' instead of ':'.
formatComponentKey_SlashCheck(key) ==
    IF Includes(key, "/") THEN key
    ELSE IF Truthy(fileKey) THEN fileKey \o <<":">> \o key
    ELSE key

\* Variant of formatComponentKey that prefixes every key when it can.
formatComponentKey_AlwaysPrefix(key) ==
    IF Truthy(fileKey) THEN fileKey \o <<":">> \o key
    ELSE key

\* formatComponentKey(key), reading the ambient figma.fileKey.
formatComponentKey(key) ==
    IF Includes(key, ":") THEN key
    ELSE IF Truthy(fileKey) THEN fileKey \o <<":">> \o key
    ELSE key

\* getLibraryNameFromKey(componentKey): the text before the first ':'.
getLibraryNameFromKey(componentKey) == Split(componentKey, ":")[1]

KeyGood == <<"F", ":", "g">>
KeyBare == <<"g">>
KeyBad  == <<"b">>
KeyNil  == <<"F", ":", "n">>

\* What figma.importComponentByKeyAsync(formattedKey) settles with: a
\* component, a falsy value, or a rejection.
importComponentByKeyAsync(formattedKey) ==
    IF formattedKey = KeyGood THEN "component"
    ELSE IF formattedKey = KeyNil THEN "null"
    ELSE "reject"

----------------------------------------------------------------------------
(* Inputs of the generator *)

NameA == <<"A">>
NameB == <<"B">>
NameV == <<"B", "|", "x", "=", "1">>
DefaultName == <<"C", "o", "m", "p", "o", "n", "e", "n", "t">>

MappingPool ==
    { [oldKey |-> KeyBad,  newKey |-> KeyGood, oldName |-> NameA, newName |-> NameB],
      [oldKey |-> KeyBare, newKey |-> KeyNil,  oldName |-> NameV, newName |-> NameA],
      [oldKey |-> KeyGood, newKey |-> KeyBad,  oldName |-> NameB, newName |-> NameV] }

MappingLists ==
    UNION { [1..n -> MappingPool] : n \in 0..MaxMappings }

\* msg.mappings when the message carries no array: for-of over it throws.
\* It is written as a list of one marker record so that it stays comparable
\* with the lists of MappingLists.
NotIterable ==
    << [oldKey |-> Null, newKey |-> Null, oldName |-> <<"<undefined>">>,
        newName |-> Null] >>

\* Variant of Fonts with the Regular style only.
Fonts_RegularOnly == <<"Regular">>

\* The styles of Inter loaded before any node is created.
Fonts == <<"Regular", "Medium", "Bold">>

----------------------------------------------------------------------------
(* Nodes and messages *)

RootName == <<"Component Migration Visual">>

\* The root container as it appears in figma.currentPage.selection.
RootNode(b) ==
    [type |-> "FRAME", id |-> b, name |-> RootName, key |-> Null,
     mainComponent |-> <<>>, parent |-> <<>>, variantProperties |-> <<>>]

SuccessMsg ==
    [type |-> "message", text |-> "Visual comparison created successfully!",
     variant |-> "info", timeout |-> 3000]
WarningMsg ==
    [type |-> "message",
     text |-> "Visual comparison created with some errors. Some components may not be available.",
     variant |-> "warning", timeout |-> 3000]
FailureMsg ==
    [type |-> "message", text |-> "Failed to generate visual comparison",
     variant |-> "error", timeout |-> 3000]

\* The label, title frame and empty body of one sub-block (OLD or NEW).
\* Variant of NameParts that splits at '/'.
NameParts_Slash(name) == Split(IF Truthy(name) THEN name ELSE DefaultName, "/")

\* (mapping.oldName || 'Component').split('|')
NameParts(name) == Split(IF Truthy(name) THEN name ELSE DefaultName, "|")

SectionHead(label, name, key) ==
    LET parts == NameParts(name)
    IN  [label       |-> label,
         nameText    |-> parts[1],
         keyText     |-> <<"(">> \o getLibraryNameFromKey(key) \o <<")">>,
         variantText |-> IF Len(parts) >= 2 /\ Truthy(parts[2])
                         THEN <<parts[2]>> ELSE <<>>,
         body        |-> <<>>]

NoSection ==
    [label |-> "", nameText |-> <<>>, keyText |-> <<>>, variantText |-> <<>>,
     body |-> <<>>]
NoPair == [old |-> NoSection, new |-> NoSection]

\* What the import boundary leaves in a sub-block.
ImportBody(out, instOk) ==
    IF out = "component" /\ instOk THEN <<"instance">>
    ELSE IF out = "null" THEN <<>>
    ELSE <<"marker">>

ImportFailed(out, instOk) == out = "reject" \/ (out = "component" /\ ~instOk)

\* Variant of Escapes without the inner try/catch: a failed import reaches the
\* per-mapping catch.
Escapes_NoBoundary(failed, markerOk, restOk) == failed \/ ~restOk

\* Whether an exception leaves the import boundary (the inner try/catch) and
\* reaches the per-mapping catch: a throw while rendering the error marker,
\* or a throw in the construction code around the boundary.
Escapes(failed, markerOk, restOk) == (failed /\ ~markerOk) \/ ~restOk

\* The failures one run of loop-body code has met.
Met(i, failed, markerOk, restOk) ==
    (IF failed THEN {<<"import", i>>} ELSE {})
    \cup (IF (failed /\ ~markerOk) \/ ~restOk THEN {<<"construct", i>>} ELSE {})

\* Variant of AppendChild that inserts at the front (insertChild(0, ...)).
AppendChild_Front(children, pairFrame) == <<pairFrame>> \o children

\* frame.appendChild(pairFrame)
AppendChild(children, pairFrame) == Append(children, pairFrame)

\* Variant of Summary that ignores the flag.
Summary_AlwaysWarning(flag) == WarningMsg

\* The summary posted after the loop.
Summary(flag) == IF flag THEN WarningMsg ELSE SuccessMsg

\* Variant of LoopPc that leaves the loop one position early.
LoopPc_FinalizeEarly(b, i) ==
    IF i >= Len(mappings[b]) THEN "Finalizing" ELSE "BuildingPairs"

\* Where the for-of loop goes with position i.
LoopPc(b, i) == IF i > Len(mappings[b]) THEN "Finalizing" ELSE "BuildingPairs"

Children(b) == frame[b][1].children

Terminal == {"Success", "PartialSuccess", "Fatal"}

----------------------------------------------------------------------------
(* Visual Comparison Generator: generateVisualComparison(mappings) *)

\* Variant of CatchMapping with one flag for all calls (hasErrors declared
\* outside the function).
CatchMapping_SharedFlag(b, kinds) ==
    /\ hasErrors' = [c \in Batches |-> TRUE]
    /\ idx' = [idx EXCEPT ![b] = idx[b] + 1]
    /\ pc' = [pc EXCEPT ![b] = LoopPc(b, idx[b] + 1)]
    /\ cur' = [cur EXCEPT ![b] = NoPair]
    /\ faults' = [faults EXCEPT ![b] = faults[b] \cup kinds]
    /\ running' = b

\* Variant of CatchMapping that leaves the loop (a break in the catch).
CatchMapping_Break(b, kinds) ==
    /\ hasErrors' = [hasErrors EXCEPT ![b] = TRUE]
    /\ idx' = [idx EXCEPT ![b] = idx[b] + 1]
    /\ pc' = [pc EXCEPT ![b] = "Finalizing"]
    /\ cur' = [cur EXCEPT ![b] = NoPair]
    /\ faults' = [faults EXCEPT ![b] = faults[b] \cup kinds]
    /\ running' = b

\* The per-mapping catch: the mapping is dropped and the flag raised.
CatchMapping(b, kinds) ==
    /\ hasErrors' = [hasErrors EXCEPT ![b] = TRUE]
    /\ idx' = [idx EXCEPT ![b] = idx[b] + 1]
    /\ pc' = [pc EXCEPT ![b] = LoopPc(b, idx[b] + 1)]
    /\ cur' = [cur EXCEPT ![b] = NoPair]
    /\ faults' = [faults EXCEPT ![b] = faults[b] \cup kinds]
    /\ running' = b

\* Variant of CatchTop that only logs the error.
CatchTop_Silent(b, kinds) ==
    /\ pc' = [pc EXCEPT ![b] = "Fatal"]
    /\ posted' = posted
    /\ faults' = [faults EXCEPT ![b] = faults[b] \cup kinds]
    /\ running' = NoBatch

\* The top-level catch: one failure message, then the call is over.
CatchTop(b, kinds) ==
    /\ pc' = [pc EXCEPT ![b] = "Fatal"]
    /\ posted' = [posted EXCEPT ![b] = Append(posted[b], FailureMsg)]
    /\ faults' = [faults EXCEPT ![b] = faults[b] \cup kinds]
    /\ running' = NoBatch

\* onmessage, case 'generateVisuals': the call starts and suspends on the
\* first loadFontAsync.
GenerateVisuals(b, ms) ==
    /\ running = NoBatch
    /\ pc[b] = "Idle"
    /\ mappings' = [mappings EXCEPT ![b] = ms]
    /\ pc' = [pc EXCEPT ![b] = "Preloading"]
    /\ UNCHANGED <<fileKey, running, fontsLoaded, frame, hasErrors, idx, cur,
                   attempted, importCalls, posted, faults, selection, otherVars>>

\* A loadFontAsync settles: the next one is called, or the preload is over,
\* or the rejection reaches the top-level catch.
FontSettled(b) ==
    /\ running = NoBatch
    /\ pc[b] = "Preloading"
    /\ \E ok \in BOOLEAN :
         IF ok
         THEN /\ fontsLoaded' = [fontsLoaded EXCEPT ![b] = fontsLoaded[b] + 1]
              /\ IF fontsLoaded[b] + 1 = Len(Fonts)
                 THEN pc' = [pc EXCEPT ![b] = "CreateRoot"] /\ running' = b
                 ELSE UNCHANGED <<pc, running>>
              /\ UNCHANGED <<posted, faults>>
         ELSE /\ CatchTop(b, {<<"font", 0>>})
              /\ UNCHANGED fontsLoaded
    /\ UNCHANGED <<fileKey, mappings, frame, hasErrors, idx, cur, attempted,
                   importCalls, selection, otherVars>>

\* figma.createFrame() for the root, its configuration, hasErrors = false,
\* and the start of the for-of loop over mappings.
CreateRoot(b) ==
    /\ running = b
    /\ pc[b] = "CreateRoot"
    /\ \E ok \in BOOLEAN :
         IF ~ok
         THEN /\ CatchTop(b, {<<"root", 0>>})
              /\ UNCHANGED <<frame, hasErrors, idx>>
         ELSE /\ frame' = [frame EXCEPT ![b] =
                               <<[name |-> RootName, children |-> <<>>]>>]
              /\ hasErrors' = [hasErrors EXCEPT ![b] = FALSE]
              /\ IF mappings[b] = NotIterable
                 THEN CatchTop(b, {<<"iter", 0>>}) /\ UNCHANGED idx
                 ELSE /\ idx' = [idx EXCEPT ![b] = 1]
                      /\ pc' = [pc EXCEPT ![b] = LoopPc(b, 1)]
                      /\ UNCHANGED <<running, posted, faults>>
    /\ UNCHANGED <<fileKey, mappings, fontsLoaded, cur, attempted, importCalls,
                   selection, otherVars>>

\* Loop body up to the first import: the pair frame, the OLD section with
\* its label and title frame, then importComponentByKeyAsync(formattedKey).
BuildOld(b) ==
    /\ running = b
    /\ pc[b] = "BuildingPairs"
    /\ attempted' = [attempted EXCEPT ![b] = Append(attempted[b], idx[b])]
    /\ LET mapping == mappings[b][idx[b]]
       IN  \E ok \in BOOLEAN :
             IF ~ok
             THEN /\ CatchMapping(b, {<<"construct", idx[b]>>})
                  /\ UNCHANGED importCalls
             ELSE /\ cur' = [cur EXCEPT ![b] =
                               [old |-> SectionHead("OLD", mapping.oldName, mapping.oldKey),
                                new |-> NoSection]]
                  /\ importCalls' = [importCalls EXCEPT ![b] =
                               Append(importCalls[b], formatComponentKey(mapping.oldKey))]
                  /\ pc' = [pc EXCEPT ![b] = "AwaitOld"]
                  /\ running' = NoBatch
                  /\ UNCHANGED <<hasErrors, idx, faults>>
    /\ UNCHANGED <<fileKey, mappings, fontsLoaded, frame, posted, selection,
                   otherVars>>

\* The OLD import settles: instance or error marker, the arrow, the NEW
\* section head, then the second importComponentByKeyAsync.
OldImportSettled(b) ==
    /\ running = NoBatch
    /\ pc[b] = "AwaitOld"
    /\ LET mapping == mappings[b][idx[b]]
           out == importComponentByKeyAsync(importCalls[b][Len(importCalls[b])])
       IN  \E instOk, markerOk, restOk \in BOOLEAN :
             LET failed == ImportFailed(out, instOk)
                 kinds == Met(idx[b], failed, markerOk, restOk)
             IN  IF Escapes(failed, markerOk, restOk)
                 THEN /\ CatchMapping(b, kinds)
                      /\ UNCHANGED importCalls
                 ELSE /\ cur' = [cur EXCEPT ![b] =
                                   [old |-> [cur[b].old EXCEPT !.body = ImportBody(out, instOk)],
                                    new |-> SectionHead("NEW", mapping.newName, mapping.newKey)]]
                      /\ importCalls' = [importCalls EXCEPT ![b] =
                                   Append(importCalls[b], formatComponentKey(mapping.newKey))]
                      /\ pc' = [pc EXCEPT ![b] = "AwaitNew"]
                      /\ faults' = [faults EXCEPT ![b] = faults[b] \cup kinds]
                      /\ UNCHANGED <<running, hasErrors, idx>>
    /\ UNCHANGED <<fileKey, mappings, fontsLoaded, frame, attempted, posted,
                   selection, otherVars>>

\* The NEW import settles: instance or error marker, then the pair frame is
\* completed and appended to the root.
NewImportSettled(b) ==
    /\ running = NoBatch
    /\ pc[b] = "AwaitNew"
    /\ LET out == importComponentByKeyAsync(importCalls[b][Len(importCalls[b])])
       IN  \E instOk, markerOk, restOk \in BOOLEAN :
             LET failed == ImportFailed(out, instOk)
                 kinds == Met(idx[b], failed, markerOk, restOk)
                 pairFrame == [mapping |-> idx[b],
                               old |-> cur[b].old,
                               new |-> [cur[b].new EXCEPT !.body = ImportBody(out, instOk)]]
             IN  IF Escapes(failed, markerOk, restOk)
                 THEN /\ CatchMapping(b, kinds)
                      /\ UNCHANGED frame
                 ELSE /\ frame' = [frame EXCEPT ![b] =
                                   <<[frame[b][1] EXCEPT !.children = AppendChild(@, pairFrame)]>>]
                      /\ idx' = [idx EXCEPT ![b] = idx[b] + 1]
                      /\ pc' = [pc EXCEPT ![b] = LoopPc(b, idx[b] + 1)]
                      /\ cur' = [cur EXCEPT ![b] = NoPair]
                      /\ faults' = [faults EXCEPT ![b] = faults[b] \cup kinds]
                      /\ running' = b
                      /\ UNCHANGED hasErrors
    /\ UNCHANGED <<fileKey, mappings, fontsLoaded, attempted, importCalls,
                   posted, selection, otherVars>>

\* After the loop: select the root, scroll to it, post the summary.
Finalize(b) ==
    /\ running = b
    /\ pc[b] = "Finalizing"
    /\ \E step \in {"ok", "selectThrows", "scrollThrows"} :
         /\ selection' = IF step = "selectThrows" THEN selection
                         ELSE <<RootNode(b)>>
         /\ IF step = "ok"
            THEN /\ posted' = [posted EXCEPT ![b] =
                       Append(posted[b], Summary(hasErrors[b]))]
                 /\ pc' = [pc EXCEPT ![b] =
                       IF hasErrors[b] THEN "PartialSuccess" ELSE "Success"]
                 /\ running' = NoBatch
                 /\ UNCHANGED faults
            ELSE CatchTop(b, {<<"finalize", 0>>})
    /\ UNCHANGED <<fileKey, mappings, fontsLoaded, frame, hasErrors, idx, cur,
                   attempted, importCalls, otherVars>>

----------------------------------------------------------------------------
(* Name Resolver: getComponentKey(node), getComponentName(node) *)

\* Variant of getComponentKey that answers an instance with its own id.
getComponentKey_OwnId(n) ==
    IF n.type = "COMPONENT" THEN n.key
    ELSE IF n.type = "INSTANCE" THEN <<n.id>>
    ELSE Null

\* getComponentKey(node): string | null
getComponentKey(n) ==
    IF n.type = "COMPONENT" THEN n.key
    ELSE IF n.type = "INSTANCE"
    THEN IF n.mainComponent # <<>> /\ n.mainComponent[1].id # ""
         THEN IF Truthy(n.mainComponent[1].key) THEN n.mainComponent[1].key
              ELSE Null
         ELSE Null
    ELSE Null

\* The name getComponentName starts from: node.name, or mainComponent.name
\* for an instance that has a main component.
StartName(n) ==
    IF n.type = "INSTANCE" /\ n.mainComponent # <<>>
    THEN n.mainComponent[1].name
    ELSE n.name

IsComponentSet(parent) == parent # <<>> /\ parent[1].type = "COMPONENT_SET"

\* Variant of BaseName that looks at the instance's own parent.
BaseName_OwnParent(n) ==
    LET name == StartName(n)
    IN  IF Includes(name, "=") /\ IsComponentSet(n.parent)
        THEN n.parent[1].name
        ELSE name

\* Variant of BaseName without the '=' test.
BaseName_AlwaysSwap(n) ==
    LET name == StartName(n)
    IN  IF n.type = "INSTANCE" /\ n.mainComponent # <<>>
           /\ IsComponentSet(n.mainComponent[1].parent)
        THEN n.mainComponent[1].parent[1].name
        ELSE IF n.type = "COMPONENT" /\ IsComponentSet(n.parent)
        THEN n.parent[1].name
        ELSE name

\* The name after the variant-set swap (the 'if (name.includes("="))' block).
BaseName(n) ==
    LET name == StartName(n)
    IN  IF Includes(name, "=")
        THEN IF n.type = "INSTANCE" /\ n.mainComponent # <<>>
                /\ IsComponentSet(n.mainComponent[1].parent)
             THEN n.mainComponent[1].parent[1].name
             ELSE IF n.type = "COMPONENT" /\ IsComponentSet(n.parent)
             THEN n.parent[1].name
             ELSE name
        ELSE name

\* Variant of JoinProps that joins with ',' alone.
RECURSIVE JoinProps_Comma(_)
JoinProps_Comma(props) ==
    IF props = <<>> THEN <<>>
    ELSE LET kv == props[1][1] \o <<"=">> \o props[1][2]
         IN  IF Len(props) = 1 THEN kv
             ELSE kv \o <<",">> \o JoinProps_Comma(Tail(props))

\* Object.keys(props).map(key => `${key}=${props[key]}`).join(', ')
RECURSIVE JoinProps(_)
JoinProps(props) ==
    IF props = <<>> THEN <<>>
    ELSE LET kv == props[1][1] \o <<"=">> \o props[1][2]
         IN  IF Len(props) = 1 THEN kv
             ELSE kv \o <<",", " ">> \o JoinProps(Tail(props))

\* variantProps: '' unless the node has a variantProperties map with entries.
VariantProps(n) ==
    IF n.variantProperties # <<>> THEN JoinProps(n.variantProperties[1])
    ELSE <<>>

\* Variant of getComponentName that appends the properties only to a name in
\* variant syntax.
getComponentName_SuffixIfVariant(n) ==
    IF n.type = "COMPONENT" \/ n.type = "INSTANCE"
    THEN IF Truthy(VariantProps(n)) /\ Includes(StartName(n), "=")
         THEN BaseName(n) \o <<"|">> \o VariantProps(n)
         ELSE BaseName(n)
    ELSE n.name

\* Variant of getComponentName without the test of the node type.
getComponentName_AnyKind(n) ==
    IF Truthy(VariantProps(n))
    THEN BaseName(n) \o <<"|">> \o VariantProps(n)
    ELSE BaseName(n)

\* getComponentName(node): string
getComponentName(n) ==
    IF n.type = "COMPONENT" \/ n.type = "INSTANCE"
    THEN IF Truthy(VariantProps(n))
         THEN BaseName(n) \o <<"|">> \o VariantProps(n)
         ELSE BaseName(n)
    ELSE n.name

(* Entities handed to the resolver *)

RawNames == { <<"A">>, <<"x", "=", "1">> }
SetName == <<"S">>
Parents ==
    { <<>>,
      <<[type |-> "COMPONENT_SET", name |-> SetName]>>,
      <<[type |-> "FRAME", name |-> <<"P">>]>> }
PropMaps ==
    { <<>>,
      << <<>> >>,
      << << <<<<"a">>, <<"1">>>> >> >>,
      << << <<<<"a">>, <<"1">>>>, <<<<"b">>, <<"2">>>> >> >>,
      << << <<<<"b">>, <<"2">>>>, <<<<"a">>, <<"1">>>> >> >> }
ComponentKeys == { <<"k", "1">>, <<"k", "2">> }
MainComponents ==
    { <<>> } \cup
    { <<[id |-> "7:1", key |-> k, name |-> nm, parent |-> p]>> :
        k \in {<<"k", "1">>}, nm \in RawNames, p \in Parents }

Nodes ==
    { [type |-> "COMPONENT", id |-> "1:1", name |-> nm, key |-> k,
       mainComponent |-> <<>>, parent |-> p, variantProperties |-> vp] :
        nm \in RawNames, k \in ComponentKeys, p \in Parents, vp \in PropMaps }
    \cup
    { [type |-> "INSTANCE", id |-> "2:1", name |-> nm, key |-> Null,
       mainComponent |-> mc, parent |-> <<>>, variantProperties |-> vp] :
        nm \in RawNames, mc \in MainComponents, vp \in PropMaps }
    \cup
    { [type |-> "FRAME", id |-> "3:1", name |-> nm, key |-> Null,
       mainComponent |-> <<>>, parent |-> p, variantProperties |-> vp] :
        nm \in RawNames, p \in Parents, vp \in PropMaps }

\* The resolver is asked for the key of the current entity.
ResolveKey ==
    /\ resolvedKey = Unset
    /\ resolvedKey' = getComponentKey(node)
    /\ UNCHANGED <<fileKey, genVars, cmdVars, selection, node, resolvedName, keyVars,
                   storeVars, uiOut, timerPending>>

\* The resolver is asked for the label of the current entity.
ResolveName ==
    /\ resolvedName = Unset
    /\ resolvedName' = getComponentName(node)
    /\ UNCHANGED <<fileKey, genVars, cmdVars, selection, node, resolvedKey, keyVars,
                   storeVars, uiOut, timerPending>>

----------------------------------------------------------------------------
(* Key formatting: formatComponentKey applied to raw keys *)

KeyAlphabet == {"a", "b", ":"}
RawKeys == UNION { [1..n -> KeyAlphabet] : n \in 0..MaxKeyLen }

\* figma.fileKey: a namespace id, the empty string, or undefined.
FileKeys == { <<"F", "K", "1">>, <<>>, Null }

\* A caller formats the raw key (insertComponentsByKeys, the import boundary).
FormatKey ==
    /\ formatted = Unset
    /\ formatted' = formatComponentKey(rawKey)
    /\ UNCHANGED <<fileKey, genVars, cmdVars, selection, nameVars, rawKey, storeVars,
                   uiOut, timerPending>>

\* A formatted key is handed to formatComponentKey again (a key that went
\* through one caller reaches another).
FormatAgain ==
    /\ formatted # Unset
    /\ Len(rawKey) <= MaxKeyLen
    /\ rawKey' = formatted
    /\ formatted' = formatComponentKey(formatted)
    /\ UNCHANGED <<fileKey, genVars, cmdVars, selection, nameVars, storeVars,
                   uiOut, timerPending>>

----------------------------------------------------------------------------
(* Persistence Bridge: saveMappings(data), loadSavedMappings() *)

\* Values that cross the storage and message boundaries, tagged by kind.
Undefined == [kind |-> "undefined"]
NullData == [kind |-> "null"]
ObjectBlob(l, t) == [kind |-> "object", mappings |-> l, timestamp |-> t]
ArrayBlob(l) == [kind |-> "array", items |-> l]

\* The model's clock starts here (milliseconds).
Epoch == 1000000000
SevenDays == 7 * 24 * 60 * 60 * 1000

SavedLists == { <<>> } \cup { <<m>> : m \in {mm \in MappingPool : mm.oldKey = KeyBad} }
Stamps == { Epoch - 1, Epoch }
SaveData ==
    { ObjectBlob(l, t) : l \in SavedLists, t \in Stamps }
    \cup { ArrayBlob(l) : l \in SavedLists }
InitialStores ==
    { Undefined }
    \cup { ArrayBlob(l) : l \in SavedLists }
    \cup { ObjectBlob(l, Epoch - 1) : l \in SavedLists }

\* Variant of LegacyWrap that stamps the list with the time of the load.
LegacyWrap_Now(saved, t) ==
    [kind |-> "object", mappings |-> saved.items, timestamp |-> t]

\* The old format wrapped: { mappings: saved, timestamp: Date.now() - 7 days }.
LegacyWrap(saved, t) ==
    [kind |-> "object", mappings |-> saved.items, timestamp |-> t - SevenDays]

\* Variant of DataToSend that wraps whatever was read.
DataToSend_WrapAll(saved, t) ==
    [kind |-> "object",
     mappings |-> IF saved.kind = "array" THEN saved.items
                  ELSE IF saved.kind = "object" THEN saved.mappings
                  ELSE <<>>,
     timestamp |-> t - SevenDays]

\* dataToSend: saved itself unless Array.isArray(saved).
DataToSend(saved, t) ==
    IF saved.kind = "array" THEN LegacyWrap(saved, t) ELSE saved

LoadedMsg(data) == [type |-> "loadedMappings", data |-> data]

\* Variant of CatchLoad that only logs the error.
CatchLoad_Silent(out) == out

\* The catch of loadSavedMappings: the reply with data: null.
CatchLoad(out) == Append(out, LoadedMsg(NullData))

\* Variant of CatchSave that reports the failure to the UI.
CatchSave_Report(out) ==
    Append(out, [type |-> "message", text |-> "Failed to save mappings",
                 variant |-> "error", timeout |-> 3000])

\* The catch of saveMappings: console.error, nothing else.
CatchSave(out) == out

\* The data of the last setAsync that succeeded, <<>> when there is none.
RECURSIVE LastSaved(_)
LastSaved(log) ==
    IF log = <<>> THEN <<>>
    ELSE IF log[Len(log)].ok THEN <<log[Len(log)].data>>
    ELSE LastSaved(SubSeq(log, 1, Len(log) - 1))

\* onmessage, case 'loadMappings': loadSavedMappings() suspends on getAsync.
LoadMappings ==
    /\ started < MaxOps
    /\ started' = started + 1
    /\ loading' = loading + 1
    /\ UNCHANGED <<fileKey, genVars, cmdVars, selection, nameVars, keyVars, storage,
                   now, saving, saveLog, reads, uiOut, timerPending>>

\* A getAsync settles: the reply with the value read (a bare list wrapped),
\* or the catch.
LoadSettled ==
    /\ loading > 0
    /\ loading' = loading - 1
    /\ \E ok \in BOOLEAN :
         /\ uiOut' = IF ok THEN Append(uiOut, LoadedMsg(DataToSend(storage, now)))
                     ELSE CatchLoad(uiOut)
         /\ reads' = Append(reads,
                [ok |-> ok, saved |-> storage, at |-> now,
                 lastSaved |-> LastSaved(saveLog),
                 replies |-> SubSeq(uiOut', Len(uiOut) + 1, Len(uiOut'))])
    /\ UNCHANGED <<fileKey, genVars, cmdVars, selection, nameVars, keyVars, storage,
                   now, saving, started, saveLog, timerPending>>

\* onmessage, case 'saveMappings': saveMappings(msg.data) suspends on setAsync.
SaveMappings(data) ==
    /\ started < MaxOps
    /\ started' = started + 1
    /\ saving' = Append(saving, data)
    /\ UNCHANGED <<fileKey, genVars, cmdVars, selection, nameVars, keyVars, storage,
                   now, loading, saveLog, reads, uiOut, timerPending>>

\* A setAsync settles: the value is stored, or the catch; then the handler
\* goes on to clearSelection().
SaveSettled ==
    /\ saving # <<>>
    /\ saving' = Tail(saving)
    /\ \E ok \in BOOLEAN :
         /\ storage' = IF ok THEN Head(saving) ELSE storage
         /\ saveLog' = Append(saveLog, [data |-> Head(saving), ok |-> ok])
         /\ uiOut' = IF ok THEN uiOut ELSE CatchSave(uiOut)
    /\ selection' = <<>>
    /\ UNCHANGED <<fileKey, genVars, cmdVars, nameVars, keyVars, now, loading, started,
                   reads, timerPending>>

\* Time passes.
Tick ==
    /\ now < Epoch + MaxTicks
    /\ now' = now + 1
    /\ UNCHANGED <<fileKey, genVars, cmdVars, selection, nameVars, keyVars, storage,
                   saving, loading, started, saveLog, reads, uiOut,
                   timerPending>>

----------------------------------------------------------------------------
(* Selection Change Notifier: handleSelectionChange() *)

\* Variant of ComponentInfos that keeps the entities without a key.
RECURSIVE ComponentInfos_NoSkip(_)
ComponentInfos_NoSkip(sel) ==
    IF sel = <<>> THEN <<>>
    ELSE LET componentKey == getComponentKey(Head(sel))
         IN  <<[key |-> componentKey,
                name |-> getComponentName(Head(sel)),
                id |-> Head(sel).id,
                library |-> getLibraryNameFromKey(componentKey)]>>
             \o ComponentInfos_NoSkip(Tail(sel))

\* componentInfo: one entry per node of the selection that has a key.
RECURSIVE ComponentInfos(_)
ComponentInfos(sel) ==
    IF sel = <<>> THEN <<>>
    ELSE LET componentKey == getComponentKey(Head(sel))
         IN  (IF Truthy(componentKey)
              THEN <<[key |-> componentKey,
                      name |-> getComponentName(Head(sel)),
                      id |-> Head(sel).id,
                      library |-> getLibraryNameFromKey(componentKey)]>>
              ELSE <<>>)
             \o ComponentInfos(Tail(sel))

\* handleSelectionChange(): the message it posts for a selection.
handleSelectionChange(sel) ==
    [type |-> "selectionChange", selection |-> ComponentInfos(sel)]

\* The entities the user can select.
SelNodes ==
    { n \in Nodes :
        \/ /\ n.type = "COMPONENT" /\ n.name = <<"x", "=", "1">>
           /\ n.key = <<"k", "2">> /\ IsComponentSet(n.parent)
           /\ n.variantProperties = << << <<<<"a">>, <<"1">>>> >> >>
        \/ /\ n.type = "INSTANCE" /\ n.name = <<"A">>
           /\ n.mainComponent # <<>>
           /\ n.mainComponent[1].name = <<"x", "=", "1">>
           /\ IsComponentSet(n.mainComponent[1].parent)
           /\ n.variantProperties = <<>>
        \/ /\ n.type = "FRAME" /\ n.name = <<"A">>
           /\ n.parent = <<>> /\ n.variantProperties = <<>> }

Selections == UNION { [1..n -> SelNodes] : n \in 0..MaxSelection }

\* figma.on("selectionchange"): the user selects sel, the handler runs.
SelectionChanged(sel) ==
    /\ Len(uiOut) < MaxPosts
    /\ sel # selection
    /\ selection' = sel
    /\ uiOut' = Append(uiOut, handleSelectionChange(sel))
    /\ UNCHANGED <<fileKey, genVars, cmdVars, nameVars, keyVars, storeVars, timerPending>>

\* onmessage, case 'getInitialSelection'.
GetInitialSelection ==
    /\ Len(uiOut) < MaxPosts
    /\ uiOut' = Append(uiOut, handleSelectionChange(selection))
    /\ UNCHANGED <<fileKey, genVars, cmdVars, selection, nameVars, keyVars, storeVars,
                   timerPending>>

\* The setTimeout callback of the initial selection check.
InitialCheck ==
    /\ timerPending
    /\ Len(uiOut) < MaxPosts
    /\ timerPending' = FALSE
    /\ uiOut' = Append(uiOut, handleSelectionChange(selection))
    /\ UNCHANGED <<fileKey, genVars, cmdVars, selection, nameVars, keyVars, storeVars>>

----------------------------------------------------------------------------
(* copySelectedComponentKey() *)

\* Variant of copySelectedComponentKey without the test of the key.
copySelectedComponentKey_NoKeyCheck(sel) ==
    IF Len(sel) = 0
    THEN [type |-> "keyCopied", success |-> FALSE,
          error |-> "No component selected"]
    ELSE [type |-> "keyCopied", success |-> TRUE,
          key |-> getComponentKey(sel[1])]

\* copySelectedComponentKey(): the message it posts for a selection.
copySelectedComponentKey(sel) ==
    IF Len(sel) = 0
    THEN [type |-> "keyCopied", success |-> FALSE,
          error |-> "No component selected"]
    ELSE LET componentKey == getComponentKey(sel[1])
         IN  IF ~Truthy(componentKey)
             THEN [type |-> "keyCopied", success |-> FALSE,
                   error |-> "Selected node is not a component"]
             ELSE [type |-> "keyCopied", success |-> TRUE,
                   key |-> componentKey]

\* onmessage, case 'copySelectedKey'.
CopySelectedKey ==
    /\ Len(uiOut) < MaxPosts
    /\ copied' = Append(copied, selection)
    /\ uiOut' = Append(uiOut, copySelectedComponentKey(selection))
    /\ UNCHANGED <<fileKey, genVars, selection, nameVars, keyVars, storeVars,
                   timerPending, ins>>

----------------------------------------------------------------------------
(* insertComponentsByKeys(keys) *)

InsertKeyPool == { KeyGood, KeyBare, KeyBad, KeyNil }
InsertKeyLists == UNION { [1..n -> InsertKeyPool] : n \in 0..MaxKeys }

InsIdle ==
    [pc |-> "Idle", keys |-> <<>>, i |-> 0, insertedComponents |-> <<>>,
     errors |-> <<>>, attempts |-> <<>>]

\* component.createInstance() for the component imported under a key.
InstanceOf(formattedKey) ==
    [type |-> "INSTANCE", id |-> "9:1", name |-> NameA, key |-> Null,
     mainComponent |-> <<[id |-> "7:1", key |-> formattedKey, name |-> NameA,
                          parent |-> <<>>]>>,
     parent |-> <<>>, variantProperties |-> <<>>]

CouldNotImport(key) ==
    [text |-> "Could not import component with key: ", key |-> key]
InvalidKey(key) == [text |-> "Invalid component key: ", key |-> key]

\* The result message posted after the loop.
InsertionResult(insertedComponents, errors) ==
    [type |-> "componentInsertionResult",
     success |-> Len(insertedComponents) > 0,
     insertedCount |-> Len(insertedComponents),
     errorCount |-> Len(errors),
     errors |-> errors]

\* The message of the outer catch.
InsertionFailed ==
    [type |-> "componentInsertionResult", success |-> FALSE,
     insertedCount |-> 0, errorCount |-> 1,
     errors |-> <<[text |-> "Failed to insert components", key |-> <<>>]>>]

\* What one key that gave no instance adds to errors: the else branch for a
\* falsy component, the inner catch for a throw.
PushError(errors, out, key) ==
    IF out = "null" THEN Append(errors, CouldNotImport(key))
    ELSE Append(errors, InvalidKey(key))

\* After the loop: select and scroll to what was inserted, post the result;
\* a throw on the way reaches the outer catch.
InsertFinish(st, step) ==
    /\ selection' = IF st.insertedComponents # <<>> /\ step # "selectThrows"
                    THEN st.insertedComponents ELSE selection
    /\ uiOut' = Append(uiOut,
                  IF st.insertedComponents # <<>> /\ step # "ok"
                  THEN InsertionFailed
                  ELSE InsertionResult(st.insertedComponents, st.errors))
    /\ ins' = [st EXCEPT !.pc = "Done"]

\* The loop reaches position i: the next import is called and the call
\* suspends, or the loop is over.
InsertLoop(st, i) ==
    IF i <= Len(st.keys)
    THEN /\ ins' = [st EXCEPT !.pc = "AwaitImport", !.i = i,
                              !.attempts = Append(@, st.keys[i])]
         /\ UNCHANGED <<selection, uiOut>>
    ELSE \E step \in {"ok", "selectThrows", "scrollThrows"} :
            InsertFinish([st EXCEPT !.i = i], step)

\* onmessage, case 'insertComponentsByKeys'.
InsertComponentsByKeys(keys) ==
    /\ ins.pc = "Idle"
    /\ InsertLoop([ins EXCEPT !.keys = keys], 1)
    /\ UNCHANGED <<fileKey, genVars, nameVars, keyVars, storeVars,
                   timerPending, copied>>

\* The import of the current key settles: an instance is created and kept,
\* or an error is pushed; then the loop goes on.
InsertImportSettled ==
    /\ ins.pc = "AwaitImport"
    /\ LET key == ins.keys[ins.i]
           formattedKey == formatComponentKey(key)
           out == importComponentByKeyAsync(formattedKey)
       IN  \E instOk \in BOOLEAN :
             InsertLoop(
               IF out = "component" /\ instOk
               THEN [ins EXCEPT !.insertedComponents =
                                    Append(@, InstanceOf(formattedKey))]
               ELSE [ins EXCEPT !.errors = PushError(@, out, key)],
               ins.i + 1)
    /\ UNCHANGED <<fileKey, genVars, nameVars, keyVars, storeVars,
                   timerPending, copied>>

----------------------------------------------------------------------------
(* Specifications *)

CmdIdle == copied = <<>> /\ ins = InsIdle

\* The parts of the state a specification does not move, as they are when
\* the top-level script has run.
NamesIdle == node = RootNode("b1") /\ resolvedKey = Unset /\ resolvedName = Unset
KeysIdle == rawKey = <<>> /\ formatted = Unset
StoreIdle ==
    /\ storage = Undefined
    /\ now = Epoch
    /\ saving = <<>>
    /\ loading = 1
    /\ started = 0
    /\ saveLog = <<>>
    /\ reads = <<>>
UiIdle == uiOut = <<>> /\ timerPending = TRUE

GenInit ==
    /\ running = NoBatch
    /\ pc = [b \in Batches |-> "Idle"]
    /\ mappings = [b \in Batches |-> <<>>]
    /\ fontsLoaded = [b \in Batches |-> 0]
    /\ frame = [b \in Batches |-> <<>>]
    /\ hasErrors = [b \in Batches |-> FALSE]
    /\ idx = [b \in Batches |-> 0]
    /\ cur = [b \in Batches |-> NoPair]
    /\ attempted = [b \in Batches |-> <<>>]
    /\ importCalls = [b \in Batches |-> <<>>]
    /\ posted = [b \in Batches |-> <<>>]
    /\ faults = [b \in Batches |-> {}]
    /\ selection = <<>>

Init ==
    /\ fileKey \in {<<"F">>, Null}
    /\ GenInit
    /\ NamesIdle
    /\ KeysIdle
    /\ StoreIdle
    /\ UiIdle
    /\ CmdIdle

\* Every step one call of generateVisualComparison can take.
Step(b) ==
    \/ \E ms \in MappingLists \cup {NotIterable} : GenerateVisuals(b, ms)
    \/ FontSettled(b)
    \/ CreateRoot(b)
    \/ BuildOld(b)
    \/ OldImportSettled(b)
    \/ NewImportSettled(b)
    \/ Finalize(b)

Next == Step("b1")

\* The generator: one call of generateVisualComparison and the host's replies.
Spec == Init /\ [][Next]_vars

NamesInit ==
    /\ fileKey = Null
    /\ GenInit
    /\ node \in Nodes
    /\ resolvedKey = Unset
    /\ resolvedName = Unset
    /\ KeysIdle
    /\ StoreIdle
    /\ UiIdle
    /\ CmdIdle

NamesNext == ResolveKey \/ ResolveName

\* The Name Resolver applied to every entity of Nodes.
SpecNames == NamesInit /\ [][NamesNext]_vars

\* The steps of a running call: the host settling an awaited call, and the
\* code between two awaits.  Every awaited host call eventually settles.
Progress(b) ==
    \/ FontSettled(b)
    \/ CreateRoot(b)
    \/ BuildOld(b)
    \/ OldImportSettled(b)
    \/ NewImportSettled(b)
    \/ Finalize(b)

FairSpec == Spec /\ WF_vars(Progress("b1"))

KeysInit ==
    /\ fileKey \in FileKeys
    /\ GenInit
    /\ NamesIdle
    /\ rawKey \in RawKeys
    /\ formatted = Unset
    /\ StoreIdle
    /\ UiIdle
    /\ CmdIdle

KeysNext == FormatKey \/ FormatAgain

\* formatComponentKey applied to every key of RawKeys under every fileKey.
SpecKeys == KeysInit /\ [][KeysNext]_vars

\* No generateVisualComparison call has been made.
CallsIdle ==
    /\ running = NoBatch
    /\ pc = [b \in Batches |-> "Idle"]
    /\ mappings = [b \in Batches |-> <<>>]
    /\ fontsLoaded = [b \in Batches |-> 0]
    /\ frame = [b \in Batches |-> <<>>]
    /\ hasErrors = [b \in Batches |-> FALSE]
    /\ idx = [b \in Batches |-> 0]
    /\ cur = [b \in Batches |-> NoPair]
    /\ attempted = [b \in Batches |-> <<>>]
    /\ importCalls = [b \in Batches |-> <<>>]
    /\ posted = [b \in Batches |-> <<>>]
    /\ faults = [b \in Batches |-> {}]

StoreInit ==
    /\ fileKey = Null
    /\ CallsIdle
    /\ selection \in { <<>> } \cup { <<n>> : n \in {f \in SelNodes : f.type = "FRAME"} }
    /\ NamesIdle
    /\ KeysIdle
    /\ storage \in InitialStores
    /\ now = Epoch
    /\ saving = <<>>
    /\ loading = 1
    /\ started = 0
    /\ saveLog = <<>>
    /\ reads = <<>>
    /\ UiIdle
    /\ CmdIdle

StoreNext ==
    \/ LoadMappings
    \/ LoadSettled
    \/ \E data \in SaveData : SaveMappings(data)
    \/ SaveSettled
    \/ Tick

\* The persistence bridge: the load at plugin start, load and save requests,
\* and the host's storage settling them.
SpecStore == StoreInit /\ [][StoreNext]_vars

SelInit ==
    /\ fileKey = Null
    /\ running = NoBatch
    /\ pc = [b \in Batches |-> "Idle"]
    /\ mappings = [b \in Batches |-> <<>>]
    /\ fontsLoaded = [b \in Batches |-> 0]
    /\ frame = [b \in Batches |-> <<>>]
    /\ hasErrors = [b \in Batches |-> FALSE]
    /\ idx = [b \in Batches |-> 0]
    /\ cur = [b \in Batches |-> NoPair]
    /\ attempted = [b \in Batches |-> <<>>]
    /\ importCalls = [b \in Batches |-> <<>>]
    /\ posted = [b \in Batches |-> <<>>]
    /\ faults = [b \in Batches |-> {}]
    /\ selection \in Selections
    /\ NamesIdle
    /\ KeysIdle
    /\ StoreIdle
    /\ UiIdle
    /\ CmdIdle

SelNext ==
    \/ \E sel \in Selections : SelectionChanged(sel)
    \/ GetInitialSelection
    \/ InitialCheck

CopyNext ==
    \/ CopySelectedKey
    \/ \E sel \in Selections : SelectionChanged(sel)

\* copySelectedKey requests between changes of the selection.
SpecCopy == SelInit /\ [][CopyNext]_vars

InsertInit ==
    /\ fileKey \in {<<"F">>, Null}
    /\ GenInit
    /\ NamesIdle
    /\ KeysIdle
    /\ StoreIdle
    /\ UiIdle
    /\ CmdIdle

InsertNext ==
    \/ \E keys \in InsertKeyLists : InsertComponentsByKeys(keys)
    \/ InsertImportSettled

\* One insertComponentsByKeys call, from the request to its result message.
SpecInsert == InsertInit /\ [][InsertNext]_vars

\* Name fields a mapping can carry: plain, with a suffix, with several '|',
\* empty, missing, with an empty base, with an empty suffix.
BlockNames ==
    { NameA, NameV, <<"A", "|", "b", "|", "c">>, <<>>, Null, <<"|", "x">>,
      <<"A", "|">> }

BlockLists ==
    { << [oldKey |-> KeyGood, newKey |-> KeyGood, oldName |-> n, newName |-> m] >> :
        n \in BlockNames, m \in BlockNames }

BlocksNext ==
    \/ \E ms \in BlockLists : GenerateVisuals("b1", ms)
    \/ Progress("b1")

\* The generator on one mapping, over the name fields of BlockNames.
SpecBlocks == Init /\ [][BlocksNext]_vars

\* Names an entity can carry: plain, in variant syntax, with a '|' in it.
LabelNames == RawNames \cup { <<"A", "|", "B">> }
LabelProps ==
    { vp \in PropMaps : vp = <<>> \/ (vp # << <<>> >> /\ vp[1][1][1] = <<"a">>) }

\* The components and instances the mapping names are resolved from.
LabelNodes ==
    { [type |-> "COMPONENT", id |-> "1:1", name |-> nm, key |-> <<"k", "1">>,
       mainComponent |-> <<>>, parent |-> p, variantProperties |-> vp] :
        nm \in LabelNames, p \in {<<>>, <<[type |-> "COMPONENT_SET", name |-> SetName]>>},
        vp \in LabelProps }
    \cup
    { [type |-> "INSTANCE", id |-> "2:1", name |-> NameA, key |-> Null,
       mainComponent |-> <<[id |-> "7:1", key |-> <<"k", "1">>, name |-> nm,
                            parent |-> p]>>,
       parent |-> <<>>, variantProperties |-> vp] :
        nm \in LabelNames, p \in {<<>>, <<[type |-> "COMPONENT_SET", name |-> SetName]>>},
        vp \in LabelProps }

LabelsInit ==
    /\ fileKey = Null
    /\ GenInit
    /\ node \in LabelNodes
    /\ resolvedKey = Unset
    /\ resolvedName = Unset
    /\ KeysIdle
    /\ StoreIdle
    /\ UiIdle
    /\ CmdIdle

\* onmessage, case 'generateVisuals', with a mapping whose key and name are
\* the ones the resolver gave for the entity.
GenerateResolved ==
    /\ resolvedKey # Unset
    /\ Truthy(resolvedKey)
    /\ resolvedName # Unset
    /\ GenerateVisuals("b1", << [oldKey |-> resolvedKey, newKey |-> resolvedKey,
                                 oldName |-> resolvedName,
                                 newName |-> resolvedName] >>)

LabelsNext ==
    \/ ResolveKey
    \/ ResolveName
    \/ GenerateResolved
    \/ Progress("b1")

\* From the resolver to the generator: an entity is resolved and a mapping
\* that carries its key and label is rendered.
SpecLabels == LabelsInit /\ [][LabelsNext]_vars

\* The list each of two overlapping generateVisuals requests carries; the
\* names tell the two lists apart.
PairList(b) ==
    IF b = "b1"
    THEN << [oldKey |-> KeyBad, newKey |-> KeyGood, oldName |-> NameA, newName |-> NameB] >>
    ELSE << [oldKey |-> KeyGood, newKey |-> KeyBad, oldName |-> <<"P">>, newName |-> <<"Q">>] >>

PairStep(b) ==
    \/ GenerateVisuals(b, PairList(b))
    \/ Progress(b)

PairNext == PairStep("b1") \/ PairStep("b2")

\* Two generateVisuals requests, the second one free to arrive at any
\* suspension point of the first.
SpecPair == Init /\ [][PairNext]_vars

\* The selection notifier: selection events, getInitialSelection requests and
\* the delayed initial check.
SpecSel == SelInit /\ [][SelNext]_vars

----------------------------------------------------------------------------
(* Properties of the generator *)

HasFault(b, kind) == \E f \in faults[b] : f[1] = kind
LoopOver(b) == pc[b] \in {"Finalizing"} \cup Terminal
                /\ frame[b] # <<>> /\ mappings[b] # NotIterable
Positions(b) == [i \in 1..Len(mappings[b]) |-> i]
Rejects(key) == importComponentByKeyAsync(formatComponentKey(key)) = "reject"

\* C1: every failed import renders an error marker in its sub-block and sets
\* the batch's 'had errors' flag, so a completed batch with a failed import
\* posts the warning summary, never the success summary.
C1_FailedImportFlagsBatch ==
    \A b \in Batches :
        /\ frame[b] # <<>> =>
             \A k \in 1..Len(Children(b)) :
                LET m == mappings[b][Children(b)[k].mapping]
                IN  /\ Rejects(m.oldKey) => Children(b)[k].old.body = <<"marker">>
                    /\ Rejects(m.newKey) => Children(b)[k].new.body = <<"marker">>
        /\ (pc[b] \in {"Success", "PartialSuccess"} /\ HasFault(b, "import"))
             => (hasErrors[b] /\ posted[b] = <<WarningMsg>>)

\* C2: an import failure stays in its sub-block.  A mapping that met no
\* construction failure outside the import boundary has had both imports
\* attempted and its pair block, with both sub-blocks, appended; once the
\* loop is over every mapping was entered, and with no construction failure
\* at all there are as many pair blocks as mappings.
C2_ImportFailureContained ==
    \A b \in Batches :
        /\ frame[b] # <<>> =>
             \A k \in 1..Len(Children(b)) :
                /\ Children(b)[k].old.label = "OLD"
                /\ Children(b)[k].new.label = "NEW"
        /\ LoopOver(b) =>
             /\ attempted[b] = Positions(b)
             /\ \A i \in 1..Len(mappings[b]) :
                  <<"construct", i>> \notin faults[b]
                    => \E k \in 1..Len(Children(b)) : Children(b)[k].mapping = i
             /\ ~HasFault(b, "construct") =>
                  /\ Len(Children(b)) = Len(mappings[b])
                  /\ Len(importCalls[b]) = 2 * Len(mappings[b])

\* C2 witness: the loop is over two mappings, the first one's OLD import
\* failed, and both pair blocks are under the root.
C2_Witness ==
    \E b \in Batches :
        /\ LoopOver(b)
        /\ Len(mappings[b]) >= 2
        /\ <<"import", 1>> \in faults[b]
        /\ Len(Children(b)) = Len(mappings[b])
        /\ Children(b)[1].old.body = <<"marker">>

\* C3: a mapping whose construction fails outside the import boundary has no
\* pair block under the root, the flag is set from then on, and the loop
\* still enters every mapping exactly once, in order.
C3_ConstructionFailureSkips ==
    \A b \in Batches :
        /\ HasFault(b, "construct") => hasErrors[b]
        /\ frame[b] # <<>> =>
             \A k \in 1..Len(Children(b)) :
                <<"construct", Children(b)[k].mapping>> \notin faults[b]
        /\ attempted[b] = [i \in 1..Len(attempted[b]) |-> i]
        /\ LoopOver(b) => attempted[b] = Positions(b)

\* C3 witness: the first of two mappings was skipped after a construction
\* failure and the second one was still built and appended.
C3_Witness ==
    \E b \in Batches :
        /\ LoopOver(b)
        /\ Len(mappings[b]) >= 2
        /\ <<"construct", 1>> \in faults[b]
        /\ attempted[b] = Positions(b)
        /\ \E k \in 1..Len(Children(b)) : Children(b)[k].mapping = 2

\* C4: a run that ends with the top-level failure message has posted exactly
\* that one message and has created no root container (no partial output).
C4_FatalLeavesNoOutput ==
    \A b \in Batches :
        pc[b] = "Fatal" => (posted[b] = <<FailureMsg>> /\ frame[b] = <<>>)

\* C5: a call posts no message while it runs and exactly one message of type
\* 'message' (variant info, warning or error) when it ends; and once started
\* it ends, whatever the host calls answer.
C5_OneMessageAndTermination ==
    /\ [](\A b \in Batches :
            /\ Len(posted[b]) <= 1
            /\ pc[b] \in Terminal <=> Len(posted[b]) = 1
            /\ \A k \in 1..Len(posted[b]) :
                 /\ posted[b][k].type = "message"
                 /\ posted[b][k].variant \in {"info", "warning", "error"})
    /\ \A b \in Batches : (pc[b] = "Preloading") ~> (pc[b] \in Terminal)

\* C5 witness: a call that met an import failure and a construction failure
\* has ended with its single message.
C5_Witness ==
    \E b \in Batches :
        /\ pc[b] \in Terminal
        /\ HasFault(b, "import")
        /\ HasFault(b, "construct")
        /\ Len(posted[b]) = 1

\* C6: the pair blocks under the root are in input order: their mapping
\* positions strictly increase, and each block shows its own mapping.
C6_ChildrenInInputOrder ==
    \A b \in Batches :
        frame[b] # <<>> =>
            /\ \A j, k \in 1..Len(Children(b)) :
                 j < k => Children(b)[j].mapping < Children(b)[k].mapping
            /\ \A k \in 1..Len(Children(b)) :
                 /\ Children(b)[k].mapping \in 1..Len(mappings[b])
                 /\ Children(b)[k].old.nameText =
                      NameParts(mappings[b][Children(b)[k].mapping].oldName)[1]

\* C6 witness: two pair blocks under the root.
C6_Witness ==
    \E b \in Batches : frame[b] # <<>> /\ Len(Children(b)) >= 2

\* C7: with an empty list no import is called and the flag stays unset; when
\* no host call fails the call ends in Success with one root container that
\* has no pair block, the root selected, and the success (info) summary.
C7_EmptyList ==
    \A b \in Batches :
        (mappings[b] = <<>> /\ pc[b] \in Terminal) =>
            /\ importCalls[b] = <<>>
            /\ attempted[b] = <<>>
            /\ ~hasErrors[b]
            /\ faults[b] = {} =>
                 /\ pc[b] = "Success"
                 /\ frame[b] = <<[name |-> RootName, children |-> <<>>]>>
                 /\ selection = <<RootNode(b)>>
                 /\ posted[b] = <<SuccessMsg>>

\* C7 witness: a call with the empty list has ended in Success.
C7_Witness ==
    \E b \in Batches : mappings[b] = <<>> /\ pc[b] = "Success"

----------------------------------------------------------------------------
(* Properties of the Name Resolver *)

IsEntity(n) == n.type = "COMPONENT" \/ n.type = "INSTANCE"

\* The grouping an entity belongs to: its own parent for a component, the
\* referenced component's parent for an instance.
Grouping(n) ==
    IF n.type = "COMPONENT" THEN n.parent
    ELSE IF n.type = "INSTANCE" /\ n.mainComponent # <<>>
    THEN n.mainComponent[1].parent
    ELSE <<>>

\* The label without the '|propList' suffix getComponentName appended.
BasePortion(label, n) ==
    IF IsEntity(n) /\ n.variantProperties # <<>> /\ n.variantProperties[1] # <<>>
    THEN SubSeq(label, 1, Len(label) - Len(JoinProps(n.variantProperties[1])) - 1)
    ELSE label

\* C8 as stated: a component gives its own key, every instance gives the key
\* of the component it references, every other kind gives null.
C8_ResolveKeyByKind ==
    resolvedKey # Unset =>
        /\ node.type = "COMPONENT" => resolvedKey = node.key
        /\ node.type = "INSTANCE" =>
             /\ node.mainComponent # <<>>
             /\ resolvedKey = node.mainComponent[1].key
        /\ ~IsEntity(node) => resolvedKey = Null

\* C8 amended: a component gives its own key; an instance gives the
\* (non-empty) key of the component it references when there is one, never
\* its own id, and null when it references none; every other kind gives null.
C8_ResolveKeyAmended ==
    resolvedKey # Unset =>
        /\ node.type = "COMPONENT" => resolvedKey = node.key
        /\ node.type = "INSTANCE" =>
             /\ resolvedKey # <<node.id>>
             /\ node.mainComponent = <<>> => resolvedKey = Null
             /\ node.mainComponent # <<>> =>
                  resolvedKey = node.mainComponent[1].key
        /\ ~IsEntity(node) => resolvedKey = Null

\* C8 witness: the key of an instance that references no component was
\* resolved to null.
C8_Witness ==
    /\ node.type = "INSTANCE"
    /\ node.mainComponent = <<>>
    /\ resolvedKey = Null

\* C9: for a component or instance whose starting name contains '=' and
\* whose grouping is a variant set, the base portion of the label is the
\* grouping's name.
C9_VariantSetNameIsBase ==
    (/\ resolvedName # Unset
     /\ IsEntity(node)
     /\ Includes(StartName(node), "=")
     /\ IsComponentSet(Grouping(node)))
        => BasePortion(resolvedName, node) = Grouping(node)[1].name

\* C9 witness: an instance of a variant, with variant properties, was given
\* a label whose base is the variant set's name and not the variant's name.
C9_Witness ==
    /\ resolvedName # Unset
    /\ node.type = "INSTANCE"
    /\ Includes(StartName(node), "=")
    /\ IsComponentSet(Grouping(node))
    /\ node.variantProperties # <<>> /\ node.variantProperties[1] # <<>>
    /\ BasePortion(resolvedName, node) = SetName
    /\ BasePortion(resolvedName, node) # StartName(node)

\* C10: when the starting name (the entity's name, or the referenced
\* component's name for an instance) contains no '=', the base portion of
\* the label is that name, whatever the parent grouping is.
C10_PlainNameIsBase ==
    (resolvedName # Unset /\ ~Includes(StartName(node), "="))
        => BasePortion(resolvedName, node) = StartName(node)

\* C10 witness: a component inside a variant set whose name has no '=' kept
\* its own name as the base of a label that carries a property suffix.
C10_Witness ==
    /\ resolvedName # Unset
    /\ node.type = "COMPONENT"
    /\ ~Includes(node.name, "=")
    /\ IsComponentSet(node.parent)
    /\ node.variantProperties # <<>> /\ node.variantProperties[1] # <<>>
    /\ BasePortion(resolvedName, node) = node.name
    /\ resolvedName # node.name

\* The entries of a variant-properties map written out one after the other,
\* 'key=value' separated by ', ', in the order the map lists its keys.
Entry(p) == p[1] \o <<"=">> \o p[2]
RECURSIVE Serialised(_)
Serialised(props) ==
    IF Len(props) = 1 THEN Entry(props[1])
    ELSE Serialised(SubSeq(props, 1, Len(props) - 1))
            \o <<",", " ">> \o Entry(props[Len(props)])

EndsWith(s, suffix) ==
    /\ Len(s) >= Len(suffix)
    /\ SubSeq(s, Len(s) - Len(suffix) + 1, Len(s)) = suffix

HasProps(n) == n.variantProperties # <<>> /\ n.variantProperties[1] # <<>>

SwapApplies(n) ==
    Includes(StartName(n), "=") /\ IsComponentSet(Grouping(n))

\* C11: the label of a component or instance with a non-empty
\* variant-properties map ends with '|' and the map's entries as 'key=value'
\* joined by ', ' in the map's key order; with an empty or absent map the
\* label is a bare name (the starting name or the grouping's name).
C11_PropertySuffix ==
    (resolvedName # Unset /\ IsEntity(node)) =>
        IF HasProps(node)
        THEN EndsWith(resolvedName,
                      <<"|">> \o Serialised(node.variantProperties[1]))
        ELSE \/ resolvedName = StartName(node)
             \/ Grouping(node) # <<>> /\ resolvedName = Grouping(node)[1].name

\* C11 witness: the map {a: "1", b: "2"} gave a label ending in '|a=1, b=2'.
C11_Witness ==
    /\ resolvedName # Unset
    /\ IsEntity(node)
    /\ node.variantProperties = << << <<<<"a">>, <<"1">>>>, <<<<"b">>, <<"2">>>> >> >>
    /\ EndsWith(resolvedName,
                <<"|", "a", "=", "1", ",", " ", "b", "=", "2">>)

\* C12: the two stages are independent.  The base is the grouping's name
\* exactly when the starting name contains '=' and the grouping is a variant
\* set; the suffix is there exactly when the map has entries; the label is
\* the one followed by the other.
C12_StagesIndependent ==
    (resolvedName # Unset /\ IsEntity(node)) =>
        resolvedName =
            (IF SwapApplies(node) THEN Grouping(node)[1].name
             ELSE StartName(node))
            \o (IF HasProps(node)
                THEN <<"|">> \o Serialised(node.variantProperties[1])
                ELSE <<>>)

\* C12 witness: a name without '=' still got the property suffix.
C12_Witness ==
    /\ resolvedName # Unset
    /\ IsEntity(node)
    /\ ~Includes(StartName(node), "=")
    /\ HasProps(node)
    /\ resolvedName # StartName(node)
    /\ Includes(resolvedName, "|")

\* C13: an entity that is neither a component nor an instance keeps its raw
\* name as label, with no swap and no suffix, and has no key.
C13_OtherKinds ==
    ~IsEntity(node) =>
        /\ resolvedName # Unset => resolvedName = node.name
        /\ resolvedKey # Unset => resolvedKey = Null

\* C13 witness: a frame inside a variant set, named in variant syntax and
\* carrying a properties map, was resolved to its own name and no key.
C13_Witness ==
    /\ node.type = "FRAME"
    /\ Includes(node.name, "=")
    /\ IsComponentSet(node.parent)
    /\ HasProps(node)
    /\ resolvedName = node.name
    /\ resolvedKey = Null

----------------------------------------------------------------------------
(* Key formatting *)

HasColon(key) == \E i \in DOMAIN key : key[i] = ":"
NamespaceAvailable == fileKey # Null /\ fileKey # <<>>

\* C14: formatComponentKey returns a key that contains ':' unchanged; a key
\* without ':' comes back as <fileKey>:<key> when the document has a file
\* key, and unchanged when it has none; every key yields a result.
C14_FormatKey ==
    formatted # Unset =>
        /\ HasColon(rawKey) => formatted = rawKey
        /\ ~HasColon(rawKey) /\ NamespaceAvailable =>
               /\ Len(formatted) = Len(fileKey) + 1 + Len(rawKey)
               /\ SubSeq(formatted, 1, Len(fileKey)) = fileKey
               /\ formatted[Len(fileKey) + 1] = ":"
               /\ SubSeq(formatted, Len(fileKey) + 2, Len(formatted)) = rawKey
        /\ ~HasColon(rawKey) /\ ~NamespaceAvailable => formatted = rawKey

C14_Witness ==
    /\ fileKey = <<"F", "K", "1">>
    /\ rawKey = <<"a", "b", "a">>
    /\ formatted = <<"F", "K", "1", ":", "a", "b", "a">>

----------------------------------------------------------------------------
(* Persistence Bridge *)

\* C15: a load whose read succeeds after a successful save of a blob x in the
\* {mappings, timestamp} shape, with no later successful save, replies with
\* exactly x: same mappings, same timestamp, no legacy wrapping.
C15_RoundTrip ==
    \A k \in DOMAIN reads :
        ( /\ reads[k].ok
          /\ reads[k].lastSaved # <<>>
          /\ reads[k].lastSaved[1].kind = "object" )
        => /\ Len(reads[k].replies) = 1
           /\ reads[k].replies[1].data.kind = "object"
           /\ reads[k].replies[1].data.mappings = reads[k].lastSaved[1].mappings
           /\ reads[k].replies[1].data.timestamp = reads[k].lastSaved[1].timestamp

C15_Witness ==
    \E k \in DOMAIN reads :
        /\ reads[k].ok
        /\ reads[k].lastSaved # <<>>
        /\ reads[k].lastSaved[1].kind = "object"
        /\ Len(reads[k].lastSaved[1].mappings) = 1
        /\ reads[k].replies = <<[type |-> "loadedMappings",
                                 data |-> reads[k].lastSaved[1]]>>

\* C16: a load that reads a bare list L replies with {mappings: L,
\* timestamp: T} where T is the time of the load minus 604800000 ms; a value
\* that is not a bare list is replied as it was read.
C16_LegacyWrap ==
    \A k \in DOMAIN reads :
        reads[k].ok =>
            /\ Len(reads[k].replies) = 1
            /\ reads[k].saved.kind = "array" =>
                   /\ reads[k].replies[1].data.kind = "object"
                   /\ reads[k].replies[1].data.mappings = reads[k].saved.items
                   /\ reads[k].replies[1].data.timestamp
                          = reads[k].at - 604800000
            /\ reads[k].saved.kind # "array" =>
                   reads[k].replies[1].data = reads[k].saved

C16_Witness ==
    \E k \in DOMAIN reads :
        /\ reads[k].ok
        /\ reads[k].saved.kind = "array"
        /\ Len(reads[k].saved.items) = 1
        /\ reads[k].at > Epoch
        /\ Len(reads[k].replies) = 1
        /\ reads[k].replies[1].data.kind = "object"
        /\ reads[k].replies[1].data.mappings = reads[k].saved.items

\* C17: a load whose read succeeds on a store that holds no value replies
\* with data: null.
C17_AbsentStoreNull ==
    \A k \in DOMAIN reads :
        reads[k].ok /\ reads[k].saved.kind = "undefined"
        => /\ Len(reads[k].replies) = 1
           /\ reads[k].replies[1].data.kind = "null"

\* The loads entered so far: the one at start and the loadMappings requests.
LoadsEntered == 1 + started - (Len(saving) + Len(saveLog))

\* C18: every load that has settled, the one at start included, has posted
\* exactly one loadedMappings reply and nothing else; the reply of a failed
\* read carries data: null, the reply of a successful read carries the value
\* read, a bare list wrapped.
C18_OneReplyPerLoad ==
    /\ Len(reads) + loading = LoadsEntered
    /\ \A k \in DOMAIN reads :
           /\ Len(reads[k].replies) = 1
           /\ reads[k].replies[1].type = "loadedMappings"
           /\ ~reads[k].ok => reads[k].replies[1].data.kind = "null"
           /\ reads[k].ok =>
                  IF reads[k].saved.kind = "array"
                  THEN /\ reads[k].replies[1].data.kind = "object"
                       /\ reads[k].replies[1].data.mappings = reads[k].saved.items
                  ELSE reads[k].replies[1].data = reads[k].saved

C18_Witness ==
    /\ Len(reads) = 2
    /\ loading = 0
    /\ ~reads[1].ok
    /\ reads[1].replies = <<[type |-> "loadedMappings", data |-> [kind |-> "null"]]>>
    /\ reads[2].ok
    /\ reads[2].saved.kind = "object"
    /\ Len(uiOut) = 2

\* C19: the step in which a save settles, stored or failed, posts nothing to
\* the UI, and the handler goes on to clear the selection.
C19_SaveFailureSwallowed ==
    [][Len(saveLog') > Len(saveLog) => uiOut' = uiOut /\ selection' = <<>>]_vars

C19_Witness ==
    \E k \in DOMAIN saveLog :
        /\ ~saveLog[k].ok
        /\ storage # saveLog[k].data
        /\ uiOut = <<>>

----------------------------------------------------------------------------
(* Selection Change Notifier *)

Resolvable(n) == getComponentKey(n) # Null /\ getComponentKey(n) # <<>>

\* The selected entities that have a key, in selection order.
RECURSIVE Keyed(_)
Keyed(sel) ==
    IF sel = <<>> THEN <<>>
    ELSE LET init == Keyed(SubSeq(sel, 1, Len(sel) - 1))
         IN  IF Resolvable(sel[Len(sel)]) THEN Append(init, sel[Len(sel)])
             ELSE init

\* C20: the selectionChange message last posted lists, in selection order,
\* one entry per selected entity that has a key, with that entity's key,
\* label and id; it is no longer than the selection and holds no null or
\* empty key.
C20_SelectionList ==
    uiOut # <<>> =>
        LET m == uiOut[Len(uiOut)]
            kept == Keyed(selection)
        IN  /\ m.type = "selectionChange"
            /\ Len(m.selection) = Len(kept)
            /\ Len(m.selection) <= Len(selection)
            /\ \A i \in DOMAIN m.selection :
                   /\ m.selection[i].key = getComponentKey(kept[i])
                   /\ m.selection[i].name = getComponentName(kept[i])
                   /\ m.selection[i].id = kept[i].id
                   /\ m.selection[i].key # Null
                   /\ m.selection[i].key # <<>>

C20_Witness ==
    /\ Len(uiOut) = 2
    /\ Len(selection) = 2
    /\ selection[1].type = "FRAME"
    /\ selection[2].type = "INSTANCE"
    /\ Len(uiOut[2].selection) = 1
    /\ uiOut[2].selection[1].id = selection[2].id
    /\ uiOut[2].selection[1].name = <<"S">>

----------------------------------------------------------------------------
(* copySelectedKey and insertComponentsByKeys *)

IsKeyCopied(m) == m.type = "keyCopied"
KeyCopiedReplies == SelectSeq(uiOut, IsKeyCopied)

\* C21: every copySelectedKey request has posted exactly one keyCopied
\* reply: success = false with an error text and no key when the selection
\* was empty or its first entity has no key, success = true with the key of
\* the first entity and no error otherwise.
C21_KeyCopied ==
    /\ Len(KeyCopiedReplies) = Len(copied)
    /\ \A k \in DOMAIN copied :
           LET sel == copied[k]
               m == KeyCopiedReplies[k]
           IN  IF sel = <<>> \/ ~Resolvable(sel[1])
               THEN /\ DOMAIN m = {"type", "success", "error"}
                    /\ m.success = FALSE
                    /\ m.error # ""
               ELSE /\ DOMAIN m = {"type", "success", "key"}
                    /\ m.success = TRUE
                    /\ m.key = getComponentKey(sel[1])

C21_Witness ==
    /\ Len(copied) = 1
    /\ Len(copied[1]) = 2
    /\ copied[1][1].type = "INSTANCE"
    /\ copied[1][2].type = "FRAME"
    /\ Len(uiOut) = 2
    /\ uiOut[1].type = "selectionChange"
    /\ uiOut[2] = [type |-> "keyCopied", success |-> TRUE, key |-> <<"k", "1">>]

IsInsertionResult(m) == m.type = "componentInsertionResult"
InsertionResults == SelectSeq(uiOut, IsInsertionResult)

\* C22: a finished insertComponentsByKeys call has attempted every key in
\* order and posted exactly one componentInsertionResult whose insertedCount
\* is the number of instances inserted, with insertedCount + errorCount the
\* number of keys, errorCount entries in errors, and success exactly when
\* insertedCount is at least 1.
C22_InsertionCounts ==
    ins.pc = "Done" =>
        /\ ins.attempts = ins.keys
        /\ Len(InsertionResults) = 1
        /\ LET m == InsertionResults[1]
           IN  /\ m.insertedCount = Len(ins.insertedComponents)
               /\ m.insertedCount + m.errorCount = Len(ins.keys)
               /\ Len(m.errors) = m.errorCount
               /\ m.success = (m.insertedCount >= 1)

----------------------------------------------------------------------------
(* Generator: ordering *)

RootCreated(b) == frame[b] # <<>>
FontRejected(b) == <<"font", 0>> \in faults[b]

\* C23: the typeface loads complete one at a time; the root container exists
\* only when three loads have resolved, and it is created in a later step
\* than the third load; after a rejected load no further load resolves and
\* no node is created.
C23_FontsBeforeNodes ==
    [][\A b \in Batches :
         /\ fontsLoaded'[b] \in {fontsLoaded[b], fontsLoaded[b] + 1}
         /\ RootCreated(b)' => fontsLoaded'[b] = 3
         /\ ~RootCreated(b) /\ RootCreated(b)' => fontsLoaded[b] = 3
         /\ cur'[b] # NoPair => RootCreated(b)'
         /\ FontRejected(b)' =>
                /\ fontsLoaded'[b] < 3
                /\ ~RootCreated(b)'
                /\ cur'[b] = NoPair
                /\ pc'[b] = "Fatal"
         /\ FontRejected(b) => fontsLoaded'[b] = fontsLoaded[b]]_vars

C23_Witness ==
    /\ fontsLoaded["b1"] = 3
    /\ RootCreated("b1")
    /\ Len(Children("b1")) = 1
    /\ pc["b1"] = "Success"

\* The stage of the call's position.
Stage(p) ==
    CASE p = "Idle" -> 0
      [] p \in {"Preloading", "CreateRoot"} -> 1
      [] p \in {"BuildingPairs", "AwaitOld", "AwaitNew"} -> 2
      [] p = "Finalizing" -> 3
      [] OTHER -> 4

StrictlyIncreasing(s) == \A i, j \in DOMAIN s : i < j => s[i] < s[j]

\* C24: a call only moves forward through Idle, Preloading, BuildingPairs,
\* Finalizing and a terminal outcome; the mapping index stays or grows by
\* one; no mapping is entered twice; Finalizing is entered only when every
\* mapping has been entered; Success and PartialSuccess are reached from
\* Finalizing only; a call at a terminal outcome takes no further step.
C24_SinglePass ==
    [][\A b \in Batches :
         /\ Stage(pc'[b]) >= Stage(pc[b])
         /\ idx'[b] \in {idx[b], idx[b] + 1}
         /\ StrictlyIncreasing(attempted'[b])
         /\ pc'[b] = "Finalizing" =>
                /\ idx'[b] = Len(mappings'[b]) + 1
                /\ attempted'[b] = [i \in 1..Len(mappings'[b]) |-> i]
         /\ pc'[b] \in {"Success", "PartialSuccess"} /\ pc[b] # pc'[b]
                => pc[b] = "Finalizing"
         /\ pc[b] \in {"Success", "PartialSuccess", "Fatal"} =>
                /\ pc'[b] = pc[b]
                /\ idx'[b] = idx[b]
                /\ frame'[b] = frame[b]
                /\ posted'[b] = posted[b]
                /\ attempted'[b] = attempted[b]
                /\ importCalls'[b] = importCalls[b]]_vars

C24_Witness ==
    /\ pc["b1"] = "PartialSuccess"
    /\ Len(mappings["b1"]) = 2
    /\ attempted["b1"] = <<1, 2>>
    /\ idx["b1"] = 3
    /\ Len(Children("b1")) = 1

\* C25: in every pair block appended to a root container, the old and the
\* new sub-block each hold a label, a name and exactly one of a rendered
\* instance and an error marker.
C25_InstanceOrMarker ==
    \A b \in Batches :
        RootCreated(b) =>
            \A k \in DOMAIN Children(b) :
                \A sec \in {Children(b)[k].old, Children(b)[k].new} :
                    /\ sec.label \in {"OLD", "NEW"}
                    /\ sec.nameText # <<>>
                    /\ sec.body \in {<<"instance">>, <<"marker">>}

----------------------------------------------------------------------------
(* Generator: name block *)

HasBar(s) == \E i \in DOMAIN s : s[i] = "|"

\* The text before the first '|', all of s when there is none.
RECURSIVE UpToBar(_)
UpToBar(s) ==
    IF s = <<>> \/ Head(s) = "|" THEN <<>>
    ELSE <<Head(s)>> \o UpToBar(Tail(s))

\* The text after the first '|', empty when there is none.
RECURSIVE AfterBar(_)
AfterBar(s) ==
    IF s = <<>> THEN <<>>
    ELSE IF Head(s) = "|" THEN Tail(s)
    ELSE AfterBar(Tail(s))

\* The name field of each sub-block of the pair block at position k.
NameFields(b, k) ==
    LET mapping == mappings[b][Children(b)[k].mapping]
    IN  { <<Children(b)[k].old, mapping.oldName>>,
          <<Children(b)[k].new, mapping.newName>> }

\* C26 (as stated): the name block shows the whole name: a name without '|'
\* gives the base line only, equal to the name; otherwise the base line is
\* the text before the first '|' and the suffix line is all the text after
\* it, shown exactly when there is some.
C26_NameBlock ==
    \A b \in Batches :
        RootCreated(b) =>
            \A k \in DOMAIN Children(b) :
                \A f \in NameFields(b, k) :
                    f[2] # Null =>
                        /\ f[1].nameText = UpToBar(f[2])
                        /\ f[1].variantText =
                               IF AfterBar(f[2]) = <<>> THEN <<>>
                               ELSE <<AfterBar(f[2])>>

\* The name the block is built from: 'Component' for a missing or empty one.
ShownName(name) ==
    IF name = Null \/ name = <<>>
    THEN <<"C", "o", "m", "p", "o", "n", "e", "n", "t">>
    ELSE name

\* C26 (amended): the base line is the text before the first '|' of the
\* name, the whole name when it has none; the suffix line is the text
\* between the first and the second '|', shown exactly when it is not
\* empty; text after a second '|' is not shown; a missing or empty name is
\* shown as 'Component'.
C26_NameBlockAmended ==
    \A b \in Batches :
        RootCreated(b) =>
            \A k \in DOMAIN Children(b) :
                \A f \in NameFields(b, k) :
                    LET name == ShownName(f[2])
                        suffix == UpToBar(AfterBar(name))
                    IN  /\ f[1].nameText = UpToBar(name)
                        /\ ~HasBar(name) => f[1].nameText = name
                        /\ f[1].variantText =
                               IF suffix = <<>> THEN <<>> ELSE <<suffix>>

C26_Witness ==
    /\ RootCreated("b1")
    /\ Len(Children("b1")) = 1
    /\ mappings["b1"][1].oldName = <<"A", "|", "b", "|", "c">>
    /\ Children("b1")[1].old.nameText = <<"A">>
    /\ Children("b1")[1].old.variantText = << <<"b">> >>
    /\ mappings["b1"][1].newName = <<>>
    /\ Children("b1")[1].new.nameText = <<"C", "o", "m", "p", "o", "n", "e", "n", "t">>
    /\ Children("b1")[1].new.variantText = <<>>

\* C29: in every pair block rendered from the label the resolver gave for
\* an entity, the base line is the base name the resolver chose and the
\* suffix line is the serialised variant-property list, absent when the
\* entity has no variant properties.
C29_LabelRoundTrip ==
    RootCreated("b1") =>
        \A k \in DOMAIN Children("b1") :
            \A sec \in {Children("b1")[k].old, Children("b1")[k].new} :
                /\ sec.nameText = BaseName(node)
                /\ sec.variantText =
                       IF HasProps(node)
                       THEN <<Serialised(node.variantProperties[1])>>
                       ELSE <<>>

----------------------------------------------------------------------------
(* Key formatting: idempotence *)

\* C28: formatting a formatted key again under the same fileKey gives the
\* same key, so no key is prefixed twice; with a non-empty fileKey every
\* result contains ':'.
C28_FormatKeyIdempotent ==
    [][/\ formatted # Unset => formatted' = formatted
       /\ (formatted' # Unset /\ NamespaceAvailable) => HasColon(formatted')]_vars

C28_Witness ==
    /\ fileKey = <<"F", "K", "1">>
    /\ rawKey = <<"F", "K", "1", ":", "a", "b">>
    /\ formatted = <<"F", "K", "1", ":", "a", "b">>

----------------------------------------------------------------------------
(* Generator: overlapping calls *)

InFlight(b) == pc[b] \notin {"Idle", "Success", "PartialSuccess", "Fatal"}

\* C27: with two overlapping calls, each call that got that far has a root
\* of its own; every pair block in a call's root was built by that call
\* from its own list; a call's hasErrors flag is set exactly when that call
\* dropped a mapping; a finished call has posted exactly one message, an
\* unfinished one none.
C27_IndependentBatches ==
    \A b \in Batches :
        /\ RootCreated(b) =>
               /\ Len(Children(b)) <= Len(attempted[b])
               /\ \A k \in DOMAIN Children(b) :
                      LET child == Children(b)[k]
                      IN  /\ child.mapping \in DOMAIN mappings[b]
                          /\ child.old.nameText = mappings[b][child.mapping].oldName
                          /\ child.new.nameText = mappings[b][child.mapping].newName
        /\ hasErrors[b] <=> HasFault(b, "construct")
        /\ Len(posted[b]) = IF pc[b] \in {"Success", "PartialSuccess", "Fatal"}
                            THEN 1 ELSE 0

C27_Witness ==
    /\ pc["b1"] = "AwaitNew"
    /\ ~hasErrors["b1"]
    /\ RootCreated("b1")
    /\ pc["b2"] = "PartialSuccess"
    /\ hasErrors["b2"]
    /\ RootCreated("b2")
    /\ Children("b2") = <<>>
    /\ posted["b2"] = <<WarningMsg>>
    /\ importCalls["b1"] = << KeyBad, KeyGood >>

----------------------------------------------------------------------------
(* saveMappings: effect on the document *)

\* C30: the step in which a save settles, stored or failed, posts nothing,
\* leaves the page's selection as it was and touches no node of the
\* document.
C30_SaveLeavesSelection ==
    [][Len(saveLog') > Len(saveLog) =>
           /\ uiOut' = uiOut
           /\ frame' = frame
           /\ selection' = selection]_vars

====
